---- MODULE Spec2Model ----
(***************************************************************************)
(* Model of the payments engine: Engine::process_transaction over the      *)
(* in-memory store (MemoryStore / Inner).  Amounts are exact decimals in   *)
(* the source; they are modelled as integers counting a fixed unit, one    *)
(* decimal place finer than the precision of the report (10^-Scale), which *)
(* keeps the exact +, - and < of the decimal type and makes the rounding   *)
(* of the report visible.  The decimal type panics when                    *)
(* a sum leaves its 96-bit range; the amounts of the model stay far below  *)
(* it, so every modelled call completes.                                   *)
(***************************************************************************)
EXTENDS Integers, FiniteSets, Sequences, TLC

\* ------------------------------------------------------------------ bounds
MaxTxId == 2
MaxClient == 2
MaxAmount == 1
MaxNet == 1

TransactionId == 1..MaxTxId
ClientId == 1..MaxClient
Amount == (0 - 1)..MaxAmount

\* ------------------------------------------------------- transaction model
TransactionInfo(id, client_id) == [id |-> id, client_id |-> client_id]

TxDeposit(id, client_id, amount) ==
  [kind |-> "Deposit", info |-> TransactionInfo(id, client_id),
   amount |-> amount, under_dispute |-> FALSE]

TxWithdrawal(id, client_id, amount) ==
  [kind |-> "Withdrawal", info |-> TransactionInfo(id, client_id), amount |-> amount]

TxDispute(id, client_id) == [kind |-> "Dispute", info |-> TransactionInfo(id, client_id)]

TxResolve(id, client_id) == [kind |-> "Resolve", info |-> TransactionInfo(id, client_id)]

TxChargeBack(id, client_id) == [kind |-> "ChargeBack", info |-> TransactionInfo(id, client_id)]

\* Every transaction the driver can hand to the engine, within the bounds.
Transaction ==
  {TxDeposit(i, c, a) : i \in TransactionId, c \in ClientId, a \in Amount}
    \cup {TxWithdrawal(i, c, a) : i \in TransactionId, c \in ClientId, a \in Amount}
    \cup {TxDispute(i, c) : i \in TransactionId, c \in ClientId}
    \cup {TxResolve(i, c) : i \in TransactionId, c \in ClientId}
    \cup {TxChargeBack(i, c) : i \in TransactionId, c \in ClientId}

IsDeposit(tx) == tx.kind = "Deposit"

HasAmount(tx) == tx.kind \in {"Deposit", "Withdrawal"}

\* Mutant: the negative-amount test is missing.
has_negative_amount_never(tx) == FALSE

has_negative_amount(tx) == IF HasAmount(tx) THEN tx.amount < 0 ELSE FALSE

\* Mutant: the flag is set whatever the argument.
set_under_dispute_always(tx, disputed) ==
  IF IsDeposit(tx) THEN [tx EXCEPT !.under_dispute = TRUE] ELSE tx

set_under_dispute(tx, disputed) ==
  IF IsDeposit(tx) THEN [tx EXCEPT !.under_dispute = disputed] ELSE tx

tx_toggle_under_dispute(tx) ==
  IF IsDeposit(tx) THEN [tx EXCEPT !.under_dispute = ~tx.under_dispute] ELSE tx

\* ----------------------------------------------------------- account model
NewAccount(client) ==
  [client |-> client, available |-> 0, held |-> 0, total |-> 0, locked |-> FALSE]

\* Account::seeded: total is computed from available and held.
AccountSeeded(client, available, held, locked) ==
  [client |-> client, available |-> available, held |-> held,
   total |-> available + held, locked |-> locked]

\* The report shows at most MAX_DISPLAY_PRECISION decimal places.  An amount of
\* the model counts units of 10^-Scale; One is the amount 1.
MAX_DISPLAY_PRECISION == 4
Scale == MAX_DISPLAY_PRECISION + 1
One == 10 ^ Scale
DisplayUnit == 10 ^ (Scale - MAX_DISPLAY_PRECISION)

\* Decimal::rescale to fewer places rounds the magnitude on the first dropped
\* digit, 5 and above upwards.
rescale_to_max_precision(amount) ==
  LET mag == IF amount < 0 THEN 0 - amount ELSE amount
      rounded == IF 2 * (mag % DisplayUnit) >= DisplayUnit
                 THEN (mag \div DisplayUnit) + 1
                 ELSE mag \div DisplayUnit
  IN IF amount < 0 THEN 0 - (rounded * DisplayUnit) ELSE rounded * DisplayUnit

to_max_display_precision(account) ==
  [account EXCEPT !.available = rescale_to_max_precision(@),
                  !.held = rescale_to_max_precision(@),
                  !.total = rescale_to_max_precision(@)]

\* ------------------------------------------------------------------ errors
NotFound(id) == [type |-> "NotFound", id |-> id]
AlreadyExists(id) == [type |-> "AlreadyExists", id |-> id]
AccessError == [type |-> "AccessError", msg |-> "Test Error"]

StoreErr(e) == [type |-> "Store", inner |-> e]
TransactionNotCommited(e) == [type |-> "TransactionNotCommited", inner |-> e]
InsufficientAvailableFunds == [type |-> "InsufficientAvailableFunds"]
InsufficientHeldFunds == [type |-> "InsufficientHeldFunds"]
WrongTransactionRef(id) == [type |-> "WrongTransactionRef", id |-> id]
TransactionRefWrongClient(id, client, wrong_client) ==
  [type |-> "TransactionRefWrongClient", id |-> id, client |-> client,
   wrong_client |-> wrong_client]
NegativeAmountTransaction(id) == [type |-> "NegativeAmountTransaction", id |-> id]
DoubleDispute(id) == [type |-> "DoubleDispute", id |-> id]
LockedAccount(id, tx) == [type |-> "LockedAccount", id |-> id, tx |-> tx]

Ok(v) == [ok |-> TRUE, val |-> v]
Err(e) == [ok |-> FALSE, err |-> e]
Unit == "unit"

\* ------------------------------------------------------------ memory store
\* The two maps of Inner are functions whose domain is the set of stored keys.
\* The RwLock accessors fail only when a lock is poisoned by a panicking
\* holder; no modelled operation panics, so those AccessError branches are
\* not taken and every map access succeeds.
Put(map, k, v) == [x \in DOMAIN map \cup {k} |-> IF x = k THEN v ELSE map[x]]

Remove(map, k) == [x \in DOMAIN map \ {k} |-> map[x]]

\* Mutant: a missing transaction is reported as an access error.
get_transaction_access_error(deps, id) ==
  IF id \in DOMAIN deps THEN Ok(deps[id]) ELSE Err(AccessError)

get_transaction(deps, id) ==
  IF id \in DOMAIN deps THEN Ok(deps[id]) ELSE Err(NotFound(id))

\* Mutant: a deposit overwrites a stored deposit with the same id.
create_transaction_overwrite(deps, tx) ==
  IF IsDeposit(tx)
  THEN [res |-> Ok(tx), deposits |-> Put(deps, tx.info.id, tx)]
  ELSE [res |-> Ok(tx), deposits |-> deps]

\* Mutant: every kind of transaction is stored.
create_transaction_any_kind(deps, tx) ==
  IF tx.info.id \notin DOMAIN deps
  THEN [res |-> Ok(tx), deposits |-> Put(deps, tx.info.id, tx)]
  ELSE [res |-> Err(AlreadyExists(tx.info.id)), deposits |-> deps]

create_transaction(deps, tx) ==
  IF IsDeposit(tx)
  THEN IF tx.info.id \notin DOMAIN deps
       THEN [res |-> Ok(tx), deposits |-> Put(deps, tx.info.id, tx)]
       ELSE [res |-> Err(AlreadyExists(tx.info.id)), deposits |-> deps]
  ELSE [res |-> Ok(tx), deposits |-> deps]

\* Mutant: the entry is not removed.
delete_transaction_keeps(deps, id) == [res |-> Ok(Unit), deposits |-> deps]

delete_transaction(deps, id) ==
  [res |-> Ok(Unit), deposits |-> Remove(deps, id)]

\* Mutant: the stored deposit is not updated.
set_transaction_under_dispute_noop(deps, id, under_dispute) ==
  [res |-> Ok(Unit), deposits |-> deps]

set_transaction_under_dispute(deps, id, under_dispute) ==
  [res |-> Ok(Unit),
   deposits |-> IF id \in DOMAIN deps
                THEN [deps EXCEPT ![id] = set_under_dispute(@, under_dispute)]
                ELSE deps]

toggle_under_dispute(deps, id) ==
  [res |-> Ok(Unit),
   deposits |-> IF id \in DOMAIN deps
                THEN [deps EXCEPT ![id] = tx_toggle_under_dispute(@)]
                ELSE deps]

\* Mutant: the stored account is not read.
get_account_fresh(accs, id) == Ok(NewAccount(id))

get_account(accs, id) ==
  Ok(IF id \in DOMAIN accs THEN accs[id] ELSE NewAccount(id))

\* Mutant: the account is not inserted.
upsert_account_drops(accs, failure, account) ==
  IF failure
  THEN [res |-> Err(AccessError), accounts |-> accs]
  ELSE [res |-> Ok(Unit), accounts |-> accs]

upsert_account(accs, failure, account) ==
  IF failure
  THEN [res |-> Err(AccessError), accounts |-> accs]
  ELSE [res |-> Ok(Unit), accounts |-> Put(accs, account.client, account)]

\* The accounts of the map, in no particular order.
get_all_accounts(accs) == {accs[c] : c \in DOMAIN accs}

\* ------------------------------------------------------- engine: handlers
\* A handler returns its result, the account as mutated in memory and the
\* deposits map as left by its store calls.
Applied(res, account, deps) == [res |-> res, account |-> account, deposits |-> deps]

\* Mutant: the two clients of the error are swapped.
wrong_client_error_swapped(account, info) ==
  TransactionRefWrongClient(info.id, account.client, info.client_id)

wrong_client_error(account, info) ==
  TransactionRefWrongClient(info.id, info.client_id, account.client)

\* Mutant: total is not credited.
deposit_no_total(account, amount) == [account EXCEPT !.available = @ + amount]

deposit(account, amount) ==
  [account EXCEPT !.available = @ + amount, !.total = @ + amount]

\* Mutant: the available funds are not checked.
withdrawal_no_check(account, amount) ==
  [res |-> Ok(Unit),
   account |-> [account EXCEPT !.available = @ - amount, !.total = @ - amount]]

\* Mutant: total is not debited.
withdrawal_no_total(account, amount) ==
  IF account.available < amount
  THEN [res |-> Err(InsufficientAvailableFunds), account |-> account]
  ELSE [res |-> Ok(Unit), account |-> [account EXCEPT !.available = @ - amount]]

withdrawal(account, amount) ==
  IF account.available < amount
  THEN [res |-> Err(InsufficientAvailableFunds), account |-> account]
  ELSE [res |-> Ok(Unit),
        account |-> [account EXCEPT !.available = @ - amount, !.total = @ - amount]]

\* Mutant: the available funds are not checked before a dispute.
dispute_overdraws(deps, account, info) ==
  LET ref_transaction == get_transaction(deps, info.id) IN
  IF ~ref_transaction.ok
  THEN IF ref_transaction.err.type = "NotFound"
       THEN Applied(Ok(Unit), account, deps)
       ELSE Applied(Err(StoreErr(ref_transaction.err)), account, deps)
  ELSE LET ref_tx == ref_transaction.val IN
       IF ~IsDeposit(ref_tx)
       THEN Applied(Err(WrongTransactionRef(info.id)), account, deps)
       ELSE IF account.client # ref_tx.info.client_id
       THEN Applied(Err(wrong_client_error(account, ref_tx.info)), account, deps)
       ELSE IF ref_tx.under_dispute
       THEN Applied(Err(DoubleDispute(info.id)), account, deps)
       ELSE LET acc == [account EXCEPT !.available = @ - ref_tx.amount,
                                       !.held = @ + ref_tx.amount]
                set == set_transaction_under_dispute(deps, ref_tx.info.id, TRUE)
            IN Applied(IF set.res.ok THEN Ok(Unit) ELSE Err(StoreErr(set.res.err)),
                       acc, set.deposits)

\* Mutant: a deposit already under dispute can be disputed again.
dispute_twice(deps, account, info) ==
  LET ref_transaction == get_transaction(deps, info.id) IN
  IF ~ref_transaction.ok
  THEN IF ref_transaction.err.type = "NotFound"
       THEN Applied(Ok(Unit), account, deps)
       ELSE Applied(Err(StoreErr(ref_transaction.err)), account, deps)
  ELSE LET ref_tx == ref_transaction.val IN
       IF ~IsDeposit(ref_tx)
       THEN Applied(Err(WrongTransactionRef(info.id)), account, deps)
       ELSE IF account.client # ref_tx.info.client_id
       THEN Applied(Err(wrong_client_error(account, ref_tx.info)), account, deps)
       ELSE IF account.available < ref_tx.amount
       THEN Applied(Err(InsufficientAvailableFunds), account, deps)
       ELSE LET acc == [account EXCEPT !.available = @ - ref_tx.amount,
                                       !.held = @ + ref_tx.amount]
                set == set_transaction_under_dispute(deps, ref_tx.info.id, TRUE)
            IN Applied(IF set.res.ok THEN Ok(Unit) ELSE Err(StoreErr(set.res.err)),
                       acc, set.deposits)

dispute(deps, account, info) ==
  LET ref_transaction == get_transaction(deps, info.id) IN
  IF ~ref_transaction.ok
  THEN IF ref_transaction.err.type = "NotFound"
       THEN Applied(Ok(Unit), account, deps)
       ELSE Applied(Err(StoreErr(ref_transaction.err)), account, deps)
  ELSE LET ref_tx == ref_transaction.val IN
       IF ~IsDeposit(ref_tx)
       THEN Applied(Err(WrongTransactionRef(info.id)), account, deps)
       ELSE IF account.client # ref_tx.info.client_id
       THEN Applied(Err(wrong_client_error(account, ref_tx.info)), account, deps)
       ELSE IF ref_tx.under_dispute
       THEN Applied(Err(DoubleDispute(ref_tx.info.id)), account, deps)
       ELSE IF account.available < ref_tx.amount
       THEN Applied(Err(InsufficientAvailableFunds), account, deps)
       ELSE LET acc == [account EXCEPT !.available = @ - ref_tx.amount,
                                       !.held = @ + ref_tx.amount]
                set == set_transaction_under_dispute(deps, ref_tx.info.id, TRUE)
            IN Applied(IF set.res.ok THEN Ok(Unit) ELSE Err(StoreErr(set.res.err)),
                       acc, set.deposits)

\* Mutant: a deposit that is not under dispute is ignored before the held
\* funds are checked.
resolve_ignores_first(deps, account, info) ==
  LET ref_transaction == get_transaction(deps, info.id) IN
  IF ~ref_transaction.ok
  THEN IF ref_transaction.err.type = "NotFound"
       THEN Applied(Ok(Unit), account, deps)
       ELSE Applied(Err(StoreErr(ref_transaction.err)), account, deps)
  ELSE LET ref_tx == ref_transaction.val IN
       IF ~IsDeposit(ref_tx)
       THEN Applied(Err(WrongTransactionRef(info.id)), account, deps)
       ELSE IF account.client # ref_tx.info.client_id
       THEN Applied(Err(wrong_client_error(account, ref_tx.info)), account, deps)
       ELSE IF ~ref_tx.under_dispute
       THEN Applied(Ok(Unit), account, deps)
       ELSE IF account.held < ref_tx.amount
       THEN Applied(Err(InsufficientHeldFunds), account, deps)
       ELSE LET acc == [account EXCEPT !.held = @ - ref_tx.amount,
                                       !.available = @ + ref_tx.amount]
                set == set_transaction_under_dispute(deps, ref_tx.info.id, FALSE)
            IN Applied(IF set.res.ok THEN Ok(Unit) ELSE Err(StoreErr(set.res.err)),
                       acc, set.deposits)

resolve(deps, account, info) ==
  LET ref_transaction == get_transaction(deps, info.id) IN
  IF ~ref_transaction.ok
  THEN IF ref_transaction.err.type = "NotFound"
       THEN Applied(Ok(Unit), account, deps)
       ELSE Applied(Err(StoreErr(ref_transaction.err)), account, deps)
  ELSE LET ref_tx == ref_transaction.val IN
       IF ~IsDeposit(ref_tx)
       THEN Applied(Err(WrongTransactionRef(info.id)), account, deps)
       ELSE IF account.client # ref_tx.info.client_id
       THEN Applied(Err(wrong_client_error(account, ref_tx.info)), account, deps)
       ELSE IF account.held < ref_tx.amount
       THEN Applied(Err(InsufficientHeldFunds), account, deps)
       ELSE IF ~ref_tx.under_dispute
       THEN Applied(Ok(Unit), account, deps)
       ELSE LET acc == [account EXCEPT !.held = @ - ref_tx.amount,
                                       !.available = @ + ref_tx.amount]
                set == set_transaction_under_dispute(deps, ref_tx.info.id, FALSE)
            IN Applied(IF set.res.ok THEN Ok(Unit) ELSE Err(StoreErr(set.res.err)),
                       acc, set.deposits)

\* Mutant: the account is not locked.
chargeback_no_lock(deps, account, info) ==
  LET ref_transaction == get_transaction(deps, info.id) IN
  IF ~ref_transaction.ok
  THEN IF ref_transaction.err.type = "NotFound"
       THEN Applied(Ok(Unit), account, deps)
       ELSE Applied(Err(StoreErr(ref_transaction.err)), account, deps)
  ELSE LET ref_tx == ref_transaction.val IN
       IF ~IsDeposit(ref_tx)
       THEN Applied(Err(WrongTransactionRef(info.id)), account, deps)
       ELSE IF account.client # ref_tx.info.client_id
       THEN Applied(Err(wrong_client_error(account, ref_tx.info)), account, deps)
       ELSE IF account.held < ref_tx.amount
       THEN Applied(Err(InsufficientHeldFunds), account, deps)
       ELSE IF ~ref_tx.under_dispute
       THEN Applied(Ok(Unit), account, deps)
       ELSE LET acc == [account EXCEPT !.held = @ - ref_tx.amount,
                                       !.total = @ - ref_tx.amount]
                set == set_transaction_under_dispute(deps, ref_tx.info.id, FALSE)
            IN Applied(IF set.res.ok THEN Ok(Unit) ELSE Err(StoreErr(set.res.err)),
                       acc, set.deposits)

chargeback(deps, account, info) ==
  LET ref_transaction == get_transaction(deps, info.id) IN
  IF ~ref_transaction.ok
  THEN IF ref_transaction.err.type = "NotFound"
       THEN Applied(Ok(Unit), account, deps)
       ELSE Applied(Err(StoreErr(ref_transaction.err)), account, deps)
  ELSE LET ref_tx == ref_transaction.val IN
       IF ~IsDeposit(ref_tx)
       THEN Applied(Err(WrongTransactionRef(info.id)), account, deps)
       ELSE IF account.client # ref_tx.info.client_id
       THEN Applied(Err(wrong_client_error(account, ref_tx.info)), account, deps)
       ELSE IF account.held < ref_tx.amount
       THEN Applied(Err(InsufficientHeldFunds), account, deps)
       ELSE IF ~ref_tx.under_dispute
       THEN Applied(Ok(Unit), account, deps)
       ELSE LET acc == [account EXCEPT !.held = @ - ref_tx.amount,
                                       !.total = @ - ref_tx.amount,
                                       !.locked = TRUE]
                set == set_transaction_under_dispute(deps, ref_tx.info.id, FALSE)
            IN Applied(IF set.res.ok THEN Ok(Unit) ELSE Err(StoreErr(set.res.err)),
                       acc, set.deposits)

apply_transaction(deps, account, tx) ==
  CASE tx.kind = "Deposit" -> Applied(Ok(Unit), deposit(account, tx.amount), deps)
    [] tx.kind = "Withdrawal" ->
         LET w == withdrawal(account, tx.amount) IN Applied(w.res, w.account, deps)
    [] tx.kind = "Dispute" -> dispute(deps, account, tx.info)
    [] tx.kind = "Resolve" -> resolve(deps, account, tx.info)
    [] tx.kind = "ChargeBack" -> chargeback(deps, account, tx.info)

\* ------------------------------------------- engine: process_transaction
\* The outcome of a call: its result, the two maps as the call leaves them, and
\* whether the call reached upsert_account and got an error from it.
Outcome(res, deps, accs, upsert_failed) ==
  [res |-> res, deposits |-> deps, accounts |-> accs, upsert_failed |-> upsert_failed]

\* Mutant: the locked-account guard is missing.
is_locked_never(account) == FALSE

is_locked(account) == account.locked

\* The inner async block: load the account, locked guard, apply, upsert.
transaction_result(deps, accs, failure, tx) ==
  LET account == get_account(accs, tx.info.client_id).val IN
  IF is_locked(account)
  THEN Outcome(Err(LockedAccount(tx.info.client_id, tx.info.id)), deps, accs, FALSE)
  ELSE LET applied == apply_transaction(deps, account, tx) IN
       IF ~applied.res.ok
       THEN Outcome(applied.res, applied.deposits, accs, FALSE)
       ELSE LET up == upsert_account(accs, failure, applied.account) IN
            IF ~up.res.ok
            THEN Outcome(Err(TransactionNotCommited(up.res.err)),
                         applied.deposits, up.accounts, TRUE)
            ELSE Outcome(Ok(applied.account), applied.deposits, up.accounts, FALSE)

\* The compensation taken when the inner block returned the error e, leaving
\* the deposits map deps.
\* Mutant: a call rejected with LockedAccount is not rolled back.
rollback_excluding_locked(deps, tx, e) ==
  IF e.type = "LockedAccount"
  THEN [res |-> Err(e), deposits |-> deps]
  ELSE IF tx.kind \in {"Deposit", "Withdrawal"}
  THEN LET del == delete_transaction(deps, tx.info.id) IN
       [res |-> IF del.res.ok THEN Err(e) ELSE Err(StoreErr(del.res.err)),
        deposits |-> del.deposits]
  ELSE IF e.type = "TransactionNotCommited"
  THEN LET tog == toggle_under_dispute(deps, tx.info.id) IN
       [res |-> IF tog.res.ok THEN Err(e) ELSE Err(StoreErr(tog.res.err)),
        deposits |-> tog.deposits]
  ELSE [res |-> Err(e), deposits |-> deps]

rollback(deps, tx, e) ==
  IF tx.kind \in {"Deposit", "Withdrawal"}
  THEN LET del == delete_transaction(deps, tx.info.id) IN
       [res |-> IF del.res.ok THEN Err(e) ELSE Err(StoreErr(del.res.err)),
        deposits |-> del.deposits]
  ELSE IF e.type = "TransactionNotCommited"
  THEN LET tog == toggle_under_dispute(deps, tx.info.id) IN
       [res |-> IF tog.res.ok THEN Err(e) ELSE Err(StoreErr(tog.res.err)),
        deposits |-> tog.deposits]
  ELSE [res |-> Err(e), deposits |-> deps]

process_transaction(deps, accs, failure, transaction) ==
  IF has_negative_amount(transaction)
  THEN Outcome(Err(NegativeAmountTransaction(transaction.info.id)), deps, accs, FALSE)
  ELSE LET created == create_transaction(deps, transaction) IN
       IF ~created.res.ok
       THEN Outcome(Err(StoreErr(created.res.err)), created.deposits, accs, FALSE)
       ELSE LET r == transaction_result(created.deposits, accs, failure, created.res.val)
            IN IF r.res.ok
               THEN r
               ELSE LET back == rollback(r.deposits, created.res.val, r.res.err)
                    IN Outcome(back.res, back.deposits, r.accounts, r.upsert_failed)

\* The accounts the engine reports: those of the store.
report(accs) == get_all_accounts(accs)

\* ------------------------------------------------------------------- state
VARIABLES
  deposits,     \* Inner.deposits
  accounts,     \* Inner.accounts
  last,         \* the last process_transaction call and what it returned
  net,          \* amounts of the Deposits that returned Ok minus those of the
                \* Withdrawals that returned Ok
  chargebacks,  \* TRUE once a ChargeBack has returned Ok
  engines,      \* the process_transaction calls in flight on a shared store
  seeded,       \* the maps the shared store was seeded with
  driver        \* process_transactions: its input, position, calls and report

vars == <<deposits, accounts, last, net, chargebacks, engines, seeded, driver>>

NoCall == [called |-> FALSE]

Call(tx, out) ==
  [called |-> TRUE, tx |-> tx, res |-> out.res, upsert_failed |-> out.upsert_failed]

Empty == [x \in {} |-> 0]

\* A store holding the two maps.
Store(deps, accs) == [deposits |-> deps, accounts |-> accs]

\* No engine shares the store.
NoEngines == <<>>

\* The driver when the calls are followed one by one without an input file.
NoDriver ==
  [input |-> <<>>, pos |-> 0, calls |-> <<>>, reported |-> FALSE, report |-> {}]

Init ==
  /\ deposits = Empty
  /\ accounts = Empty
  /\ last = NoCall
  /\ net = 0
  /\ chargebacks = FALSE
  /\ engines = NoEngines
  /\ seeded = Store(Empty, Empty)
  /\ driver = NoDriver

\* The call of tx returns with the outcome out.
Completes(tx, out) ==
  /\ deposits' = out.deposits
  /\ accounts' = out.accounts
  /\ last' = Call(tx, out)
  /\ net' = IF out.res.ok /\ tx.kind = "Deposit" THEN net + tx.amount
            ELSE IF out.res.ok /\ tx.kind = "Withdrawal" THEN net - tx.amount
            ELSE net
  /\ chargebacks' = (chargebacks \/ (out.res.ok /\ tx.kind = "ChargeBack"))
  /\ UNCHANGED <<engines, seeded, driver>>

\* The driver hands one transaction to the engine and the call completes.
\* failure is the store's enable_upsert_account_failure during the call: whether
\* upsert_account returns an access error.
ProcessTransaction(tx, failure) ==
  /\ ~last.called
  /\ IsDeposit(tx) => net + tx.amount <= MaxNet
  /\ Completes(tx, process_transaction(deposits, accounts, failure, tx))

\* The driver has logged the result of the call and reads the next
\* transaction of its input.
NextTransaction ==
  /\ last.called
  /\ last' = NoCall
  /\ UNCHANGED <<deposits, accounts, net, chargebacks, engines, seeded, driver>>

Next ==
  \/ \E tx \in Transaction, failure \in BOOLEAN : ProcessTransaction(tx, failure)
  \/ NextTransaction

Spec == Init /\ [][Next]_vars

\* ------------------------------------------------------- reading the state
\* The stored account of a client, as a sequence of length 0 or 1.
StoredAccount(accs, c) == IF c \in DOMAIN accs THEN <<accs[c]>> ELSE <<>>

\* The last call returned the error e.
Returned(l, e) == l.called /\ ~l.res.ok /\ l.res.err = e

RECURSIVE SumTotal(_, _)
SumTotal(accs, cs) ==
  IF cs = {} THEN 0
  ELSE LET c == CHOOSE x \in cs : TRUE IN accs[c].total + SumTotal(accs, cs \ {c})

\* ------------------------------------------------------------------ claims
DisputeKinds == {"Dispute", "Resolve", "ChargeBack"}

\* C1: after every completed process_transaction call, every stored account
\* has total = available + held.
C1_TotalIsAvailablePlusHeld ==
  \A c \in DOMAIN accounts :
    accounts[c].total = accounts[c].available + accounts[c].held

\* A call in which upsert_account failed has completed while an account holds
\* disputed funds.
C1_Witness ==
  /\ last.called /\ last.upsert_failed
  /\ \E c \in DOMAIN accounts : accounts[c].held > 0

\* C2: whenever process_transaction returns an error, the accounts map and the
\* deposits map are what they were before the call.
C2_FailedCallLeavesNoTrace ==
  [][(last'.called /\ ~last'.res.ok) =>
       (deposits' = deposits /\ accounts' = accounts)]_vars

\* C3: if upsert_account fails while processing a Dispute, Resolve or
\* ChargeBack, the referenced deposit's under_dispute flag is the same after
\* the call as before it.
C3_DisputeFlagRestored ==
  [][(/\ last'.called /\ last'.upsert_failed
      /\ last'.tx.kind \in DisputeKinds
      /\ last'.tx.info.id \in DOMAIN deposits) =>
       (/\ last'.tx.info.id \in DOMAIN deposits'
        /\ deposits'[last'.tx.info.id].under_dispute
             = deposits[last'.tx.info.id].under_dispute)]_vars

\* C4: if upsert_account fails while processing a Deposit, the call returns
\* TransactionNotCommited wrapping the store error, the deposits map has no
\* entry for the deposit's id afterwards and the client's stored account is
\* unchanged.
C4_DepositNotCommitted ==
  [][(last'.called /\ last'.upsert_failed /\ last'.tx.kind = "Deposit") =>
       (/\ last'.res = Err(TransactionNotCommited(AccessError))
        /\ last'.tx.info.id \notin DOMAIN deposits'
        /\ StoredAccount(accounts', last'.tx.info.client_id)
             = StoredAccount(accounts, last'.tx.info.client_id))]_vars

\* A Deposit of a positive amount for a client with a stored account failed at
\* upsert_account.
C4_Witness ==
  /\ last.called /\ last.upsert_failed
  /\ last.tx.kind = "Deposit" /\ last.tx.amount > 0
  /\ last.tx.info.client_id \in DOMAIN accounts

\* The call of this step is for a client whose stored account is locked.
OnLockedAccount ==
  /\ last'.called
  /\ last'.tx.info.client_id \in DOMAIN accounts
  /\ accounts[last'.tx.info.client_id].locked

\* The client's stored account is the same after the step as before it.
LastClientAccountUnchanged ==
  StoredAccount(accounts', last'.tx.info.client_id)
    = StoredAccount(accounts, last'.tx.info.client_id)

\* C5 as stated: once a client's stored account is locked, every later call for
\* that client returns LockedAccount{id: client, tx: id} and leaves the stored
\* account as it was.
C5_LockedRejectsEverything ==
  [][OnLockedAccount =>
       (/\ last'.res = Err(LockedAccount(last'.tx.info.client_id, last'.tx.info.id))
        /\ LastClientAccountUnchanged)]_vars

\* C5 amended: every later call for a locked client leaves the stored account as
\* it was and returns LockedAccount{id: client, tx: id}, except that a Deposit or
\* Withdrawal of a negative amount returns NegativeAmountTransaction{id} and a
\* Deposit of a non-negative amount whose id is already stored returns
\* AlreadyExists{id}.
C5_LockedRejectsAmended ==
  [][OnLockedAccount =>
       (/\ LastClientAccountUnchanged
        /\ last'.res =
             IF has_negative_amount(last'.tx)
             THEN Err(NegativeAmountTransaction(last'.tx.info.id))
             ELSE IF IsDeposit(last'.tx) /\ last'.tx.info.id \in DOMAIN deposits
             THEN Err(StoreErr(AlreadyExists(last'.tx.info.id)))
             ELSE Err(LockedAccount(last'.tx.info.client_id, last'.tx.info.id)))]_vars

\* A Resolve was rejected with LockedAccount on an account that is locked.
C5_Witness ==
  /\ last.called /\ last.tx.kind = "Resolve"
  /\ Returned(last, LockedAccount(last.tx.info.client_id, last.tx.info.id))
  /\ last.tx.info.client_id \in DOMAIN accounts
  /\ accounts[last.tx.info.client_id].locked

\* C6: a Deposit or Withdrawal of a negative amount returns
\* NegativeAmountTransaction{id} and leaves accounts and deposits unchanged,
\* whatever else holds.
C6_NegativeAmountRejected ==
  [][(last'.called /\ HasAmount(last'.tx) /\ last'.tx.amount < 0) =>
       (/\ last'.res = Err(NegativeAmountTransaction(last'.tx.info.id))
        /\ deposits' = deposits
        /\ accounts' = accounts)]_vars

\* A Deposit of a negative amount, with the id of a stored deposit and for a
\* locked client, was rejected with NegativeAmountTransaction.
C6_Witness ==
  /\ last.called /\ last.tx.kind = "Deposit" /\ last.tx.amount < 0
  /\ Returned(last, NegativeAmountTransaction(last.tx.info.id))
  /\ last.tx.info.id \in DOMAIN deposits
  /\ last.tx.info.client_id \in DOMAIN accounts
  /\ accounts[last.tx.info.client_id].locked

\* The stored deposit with the id of this step's call is still stored and
\* unchanged, and no account changed.
FirstDepositKept ==
  /\ last'.tx.info.id \in DOMAIN deposits'
  /\ deposits'[last'.tx.info.id] = deposits[last'.tx.info.id]
  /\ accounts' = accounts

\* C7 as stated: a Deposit whose id is already a key of the deposits map
\* returns AlreadyExists{id}; the stored deposit is kept unchanged and no
\* account changes.
C7_DuplicateDepositRejected ==
  [][(/\ last'.called /\ last'.tx.kind = "Deposit"
      /\ last'.tx.info.id \in DOMAIN deposits) =>
       (/\ last'.res = Err(StoreErr(AlreadyExists(last'.tx.info.id)))
        /\ FirstDepositKept)]_vars

\* C7 amended: a Deposit of a non-negative amount whose id is already a key of
\* the deposits map returns AlreadyExists{id}; a Deposit of a negative amount
\* with such an id returns NegativeAmountTransaction{id}; in both cases the
\* stored deposit is kept unchanged and no account changes.
C7_DuplicateDepositAmended ==
  [][(/\ last'.called /\ last'.tx.kind = "Deposit"
      /\ last'.tx.info.id \in DOMAIN deposits) =>
       (/\ last'.res =
             IF last'.tx.amount < 0
             THEN Err(NegativeAmountTransaction(last'.tx.info.id))
             ELSE Err(StoreErr(AlreadyExists(last'.tx.info.id)))
        /\ FirstDepositKept)]_vars

\* A Deposit with the id of a stored deposit, for another client and of another
\* amount than the stored one, was rejected with AlreadyExists.
C7_Witness ==
  /\ last.called /\ last.tx.kind = "Deposit"
  /\ Returned(last, StoreErr(AlreadyExists(last.tx.info.id)))
  /\ last.tx.info.id \in DOMAIN deposits
  /\ deposits[last.tx.info.id].info.client_id # last.tx.info.client_id
  /\ deposits[last.tx.info.id].amount # last.tx.amount

\* C8: once a client's stored account is locked it is locked in every later
\* state.
C8_LockedIsMonotonic ==
  [][\A c \in DOMAIN accounts :
       accounts[c].locked => (c \in DOMAIN accounts' /\ accounts'[c].locked)]_vars

\* A Deposit for a locked client has completed and the account is still locked.
C8_Witness ==
  /\ last.called /\ last.tx.kind = "Deposit" /\ last.tx.amount >= 0
  /\ last.tx.info.client_id \in DOMAIN accounts
  /\ accounts[last.tx.info.client_id].locked

\* C9: while no ChargeBack has returned success, the sum of total over the
\* stored accounts is the sum of the successful Deposits' amounts minus the sum
\* of the successful Withdrawals' amounts.
C9_Conservation ==
  ~chargebacks => SumTotal(accounts, DOMAIN accounts) = net

\* A Withdrawal of a positive amount has succeeded, no ChargeBack has, and
\* two clients have accounts.
C9_Witness ==
  /\ ~chargebacks
  /\ last.called /\ last.res.ok
  /\ last.tx.kind = "Withdrawal" /\ last.tx.amount > 0
  /\ Cardinality(DOMAIN accounts) > 1

\* C10: every entry of the deposits map is a Deposit whose key is its own
\* transaction id.
C10_OnlyDepositsStored ==
  \A id \in DOMAIN deposits :
    deposits[id].kind = "Deposit" /\ deposits[id].info.id = id

\* A Withdrawal whose id is not stored has succeeded while a deposit is stored.
C10_Witness ==
  /\ last.called /\ last.res.ok /\ last.tx.kind = "Withdrawal"
  /\ last.tx.info.id \notin DOMAIN deposits
  /\ deposits # Empty

\* The clients that have a row in the report produced from the accounts accs.
ReportedClients(accs) == {row.client : row \in report(accs)}

\* C11 as stated: the report has a row for the client of every transaction
\* passed to process_transaction, whether the call succeeded or failed (stated
\* for the last call; rows are never removed).
C11_EveryClientReported ==
  last.called => last.tx.info.client_id \in ReportedClients(accounts)

\* C11 amended: the report has a row for exactly the clients for which some
\* process_transaction call returned success: a successful call leaves a row
\* for its client, a row appears only through a successful call for that
\* client, and rows are never removed.
C11_SuccessfulClientsReported ==
  [][/\ (last'.called /\ last'.res.ok) =>
          last'.tx.info.client_id \in ReportedClients(accounts')
     /\ \A c \in ReportedClients(accounts') \ ReportedClients(accounts) :
          last'.called /\ last'.res.ok /\ last'.tx.info.client_id = c
     /\ ReportedClients(accounts) \subseteq ReportedClients(accounts')]_vars

\* One client has a row after a successful call, and the last call, for a
\* client that has no row, failed.
C11_Witness ==
  /\ last.called /\ ~last.res.ok
  /\ last.tx.info.client_id \notin ReportedClients(accounts)
  /\ ReportedClients(accounts) # {}

\* C12: a stored deposit's under_dispute flag goes from false to true only in a
\* Dispute referencing it that returns success, and from true to false only in
\* a Resolve or ChargeBack referencing it that returns success; every other
\* call leaves the flag as it was.
C12_FlagChangesOnlyOnSuccess ==
  [][\A id \in DOMAIN deposits \cap DOMAIN deposits' :
       /\ (~deposits[id].under_dispute /\ deposits'[id].under_dispute) =>
            (/\ last'.called /\ last'.res.ok
             /\ last'.tx.kind = "Dispute" /\ last'.tx.info.id = id)
       /\ (deposits[id].under_dispute /\ ~deposits'[id].under_dispute) =>
            (/\ last'.called /\ last'.res.ok
             /\ last'.tx.kind \in {"Resolve", "ChargeBack"}
             /\ last'.tx.info.id = id)]_vars

\* The account the call of this step loads: the client's stored account, or a
\* zeroed one.
LoadedAccount == get_account(accounts, last'.tx.info.client_id).val

\* The call of this step is of the given kind, for an unlocked client, and
\* references a stored deposit of that client.
OwnDepositCall(kind) ==
  /\ last'.called /\ last'.tx.kind = kind
  /\ ~LoadedAccount.locked
  /\ last'.tx.info.id \in DOMAIN deposits
  /\ deposits[last'.tx.info.id].info.client_id = last'.tx.info.client_id

\* The deposit the call of this step references.
RefDeposit == deposits[last'.tx.info.id]

\* The call of this step returned success and stored the account acc for its
\* client, leaving the other accounts as they were.
SucceededWith(acc) ==
  /\ last'.res = Ok(acc)
  /\ accounts' = Put(accounts, acc.client, acc)

\* The referenced deposit's flag is flag after the step and nothing else in the
\* deposits map changed.
OnlyFlagSet(flag) ==
  deposits' = [deposits EXCEPT ![last'.tx.info.id].under_dispute = flag]

\* C13: a ChargeBack by an unlocked client referencing that client's stored
\* deposit which is under dispute, with held >= the deposit amount, succeeds
\* (upsert_account not failing): held and total decrease by the amount,
\* available is unchanged, locked becomes true, and the deposit stays stored
\* with under_dispute = false.
C13_ChargebackApplied ==
  [][(/\ OwnDepositCall("ChargeBack") /\ ~last'.upsert_failed
      /\ RefDeposit.under_dispute
      /\ LoadedAccount.held >= RefDeposit.amount) =>
       (/\ SucceededWith([LoadedAccount EXCEPT !.held = @ - RefDeposit.amount,
                                               !.total = @ - RefDeposit.amount,
                                               !.locked = TRUE])
        /\ OnlyFlagSet(FALSE))]_vars

\* A ChargeBack of a deposit of a positive amount has succeeded: the account is
\* locked and the deposit is stored, not under dispute.
C13_Witness ==
  /\ last.called /\ last.res.ok /\ last.tx.kind = "ChargeBack"
  /\ last.res.val.locked
  /\ last.tx.info.id \in DOMAIN deposits
  /\ deposits[last.tx.info.id].amount > 0
  /\ ~deposits[last.tx.info.id].under_dispute

\* C14: a Dispute by an unlocked client referencing that client's stored
\* deposit which is not under dispute, with available >= the deposit amount,
\* succeeds (upsert_account not failing): available decreases and held
\* increases by the amount, total and locked are unchanged, and the deposit's
\* flag becomes true.
C14_DisputeApplied ==
  [][(/\ OwnDepositCall("Dispute") /\ ~last'.upsert_failed
      /\ ~RefDeposit.under_dispute
      /\ LoadedAccount.available >= RefDeposit.amount) =>
       (/\ SucceededWith([LoadedAccount EXCEPT !.available = @ - RefDeposit.amount,
                                               !.held = @ + RefDeposit.amount])
        /\ OnlyFlagSet(TRUE))]_vars

\* A Dispute of a deposit of a positive amount has succeeded: the funds are
\* held and the deposit is under dispute.
C14_Witness ==
  /\ last.called /\ last.res.ok /\ last.tx.kind = "Dispute"
  /\ last.res.val.held > 0
  /\ last.tx.info.id \in DOMAIN deposits
  /\ deposits[last.tx.info.id].under_dispute

\* C15: a Resolve by an unlocked client referencing that client's stored
\* deposit which is under dispute, with held >= the deposit amount, succeeds
\* (upsert_account not failing): held decreases and available increases by the
\* amount, total and locked are unchanged, and the deposit's flag becomes false.
C15_ResolveApplied ==
  [][(/\ OwnDepositCall("Resolve") /\ ~last'.upsert_failed
      /\ RefDeposit.under_dispute
      /\ LoadedAccount.held >= RefDeposit.amount) =>
       (/\ SucceededWith([LoadedAccount EXCEPT !.held = @ - RefDeposit.amount,
                                               !.available = @ + RefDeposit.amount])
        /\ OnlyFlagSet(FALSE))]_vars

\* A Resolve of a deposit of a positive amount has succeeded: the funds are
\* available again and the deposit is not under dispute.
C15_Witness ==
  /\ last.called /\ last.res.ok /\ last.tx.kind = "Resolve"
  /\ last.res.val.available > 0 /\ last.res.val.held = 0
  /\ last.tx.info.id \in DOMAIN deposits
  /\ deposits[last.tx.info.id].amount > 0
  /\ ~deposits[last.tx.info.id].under_dispute
  /\ ~chargebacks

\* C16: a Deposit with amount >= 0 and a fresh id for an unlocked (or not yet
\* stored) client succeeds (upsert_account not failing): available and total
\* increase by the amount, held and locked are unchanged, the deposit is stored
\* under its id with under_dispute = false, and no other deposit changes.
C16_DepositApplied ==
  [][(/\ last'.called /\ last'.tx.kind = "Deposit" /\ ~last'.upsert_failed
      /\ last'.tx.amount >= 0
      /\ last'.tx.info.id \notin DOMAIN deposits
      /\ ~LoadedAccount.locked) =>
       (/\ SucceededWith([LoadedAccount EXCEPT !.available = @ + last'.tx.amount,
                                               !.total = @ + last'.tx.amount])
        /\ deposits' = Put(deposits, last'.tx.info.id,
                           TxDeposit(last'.tx.info.id, last'.tx.info.client_id,
                                     last'.tx.amount)))]_vars

\* A Deposit of a positive amount has succeeded for a client that holds
\* disputed funds of another deposit.
C16_Witness ==
  /\ last.called /\ last.res.ok /\ last.tx.kind = "Deposit" /\ last.tx.amount > 0
  /\ last.tx.info.id \in DOMAIN deposits
  /\ \E id \in DOMAIN deposits :
       /\ id # last.tx.info.id
       /\ deposits[id].under_dispute
       /\ deposits[id].info.client_id = last.tx.info.client_id

\* C17: a Withdrawal with amount >= 0 on an unlocked account returns
\* InsufficientAvailableFunds and leaves the stored account unchanged if
\* available < amount; otherwise it succeeds (upsert_account not failing) and
\* available and total decrease by the amount, held and locked unchanged.
C17_WithdrawalApplied ==
  [][(/\ last'.called /\ last'.tx.kind = "Withdrawal"
      /\ last'.tx.amount >= 0
      /\ ~LoadedAccount.locked) =>
       IF LoadedAccount.available < last'.tx.amount
       THEN /\ last'.res = Err(InsufficientAvailableFunds)
            /\ accounts' = accounts
       ELSE ~last'.upsert_failed =>
              SucceededWith([LoadedAccount EXCEPT !.available = @ - last'.tx.amount,
                                                  !.total = @ - last'.tx.amount])]_vars

\* A Withdrawal that the account's total would cover was refused because the
\* funds are held.
C17_Witness ==
  /\ Returned(last, InsufficientAvailableFunds) /\ last.tx.kind = "Withdrawal"
  /\ last.tx.info.client_id \in DOMAIN accounts
  /\ accounts[last.tx.info.client_id].held > 0
  /\ accounts[last.tx.info.client_id].total >= last.tx.amount

\* C18: a Dispute, Resolve or ChargeBack by an unlocked client whose referenced
\* id is not a key of the deposits map returns success (upsert_account not
\* failing) with the client's balances unchanged, and no stored deposit changes.
C18_MissingRefIgnored ==
  [][(/\ last'.called /\ last'.tx.kind \in DisputeKinds /\ ~last'.upsert_failed
      /\ ~LoadedAccount.locked
      /\ last'.tx.info.id \notin DOMAIN deposits) =>
       (/\ SucceededWith(LoadedAccount)
        /\ deposits' = deposits)]_vars

\* A ChargeBack referencing an id that is not stored has succeeded for a client
\* that has a deposit under dispute.
C18_Witness ==
  /\ last.called /\ last.res.ok /\ last.tx.kind = "ChargeBack"
  /\ last.tx.info.id \notin DOMAIN deposits
  /\ ~last.res.val.locked
  /\ \E id \in DOMAIN deposits :
       /\ deposits[id].under_dispute
       /\ deposits[id].info.client_id = last.tx.info.client_id

\* C19: a Dispute by an unlocked client referencing that client's stored
\* deposit which is already under dispute returns DoubleDispute{id}; the
\* deposit stays under dispute and the stored account is unchanged.
C19_DoubleDisputeRejected ==
  [][(OwnDepositCall("Dispute") /\ RefDeposit.under_dispute) =>
       (/\ last'.res = Err(DoubleDispute(last'.tx.info.id))
        /\ deposits' = deposits
        /\ accounts' = accounts)]_vars

\* A second Dispute of a deposit of a positive amount was rejected with
\* DoubleDispute; the deposit is under dispute and its amount is held once.
C19_Witness ==
  /\ Returned(last, DoubleDispute(last.tx.info.id)) /\ last.tx.kind = "Dispute"
  /\ last.tx.info.id \in DOMAIN deposits
  /\ deposits[last.tx.info.id].under_dispute
  /\ deposits[last.tx.info.id].amount > 0
  /\ accounts[last.tx.info.client_id].held = deposits[last.tx.info.id].amount

\* The call of this step is a Dispute, Resolve or ChargeBack referencing a
\* stored deposit owned by another client than the caller.
OtherClientsDepositCall ==
  /\ last'.called /\ last'.tx.kind \in DisputeKinds
  /\ last'.tx.info.id \in DOMAIN deposits
  /\ deposits[last'.tx.info.id].info.client_id # last'.tx.info.client_id

\* The call of this step returned TransactionRefWrongClient naming the deposit,
\* its owner and the caller.
ReturnedWrongClient ==
  last'.res = Err(TransactionRefWrongClient(last'.tx.info.id,
                                            RefDeposit.info.client_id,
                                            last'.tx.info.client_id))

\* C20 as stated: a Dispute, Resolve or ChargeBack from client c referencing a
\* stored deposit owned by another client d returns
\* TransactionRefWrongClient{id, client: d, wrong_client: c}; no deposit and no
\* account changes.
C20_WrongClientRejected ==
  [][OtherClientsDepositCall =>
       (/\ ReturnedWrongClient
        /\ deposits' = deposits
        /\ accounts' = accounts)]_vars

\* C20 amended: such a call returns TransactionRefWrongClient{id, client: d,
\* wrong_client: c} when c's account is not locked and LockedAccount{id: c,
\* tx: id} when it is; in both cases no deposit and no account changes.
C20_WrongClientAmended ==
  [][OtherClientsDepositCall =>
       (/\ IF LoadedAccount.locked
           THEN last'.res = Err(LockedAccount(last'.tx.info.client_id,
                                              last'.tx.info.id))
           ELSE ReturnedWrongClient
        /\ deposits' = deposits
        /\ accounts' = accounts)]_vars

\* A ChargeBack of another client's deposit, which is under dispute, was
\* rejected with TransactionRefWrongClient.
C20_Witness ==
  /\ last.called /\ ~last.res.ok /\ last.tx.kind = "ChargeBack"
  /\ last.res.err.type = "TransactionRefWrongClient"
  /\ last.tx.info.id \in DOMAIN deposits
  /\ deposits[last.tx.info.id].under_dispute
  /\ deposits[last.tx.info.id].info.client_id # last.tx.info.client_id

\* The call of this step is of one of the given kinds and references a stored
\* deposit of the calling client, whose account may be locked.
OwnStoredDepositCall(kinds) ==
  /\ last'.called /\ last'.tx.kind \in kinds
  /\ last'.tx.info.id \in DOMAIN deposits
  /\ deposits[last'.tx.info.id].info.client_id = last'.tx.info.client_id

\* The step changed neither map of the store.
StoreUnchanged == deposits' = deposits /\ accounts' = accounts

\* The call of this step returned LockedAccount naming its client and its id.
ReturnedLocked ==
  last'.res = Err(LockedAccount(last'.tx.info.client_id, last'.tx.info.id))

\* C21 as stated: a Dispute referencing the client's own stored, not-disputed
\* deposit whose amount exceeds the account's available funds returns
\* InsufficientAvailableFunds; the flag stays false and the stored account is
\* unchanged.
C21_DisputeNeedsAvailable ==
  [][(/\ OwnStoredDepositCall({"Dispute"})
      /\ ~RefDeposit.under_dispute
      /\ LoadedAccount.available < RefDeposit.amount) =>
       (/\ last'.res = Err(InsufficientAvailableFunds)
        /\ StoreUnchanged)]_vars

\* C21 amended: such a Dispute returns InsufficientAvailableFunds when the
\* client's account is not locked and LockedAccount when it is; in both cases
\* the flag stays false and the stored account is unchanged.
C21_DisputeNeedsAvailableAmended ==
  [][(/\ OwnStoredDepositCall({"Dispute"})
      /\ ~RefDeposit.under_dispute
      /\ LoadedAccount.available < RefDeposit.amount) =>
       (/\ IF LoadedAccount.locked
           THEN ReturnedLocked
           ELSE last'.res = Err(InsufficientAvailableFunds)
        /\ StoreUnchanged)]_vars

\* A Dispute of the client's own deposit was refused for insufficient
\* available funds: the deposit is not under dispute and nothing is held.
C21_Witness ==
  /\ Returned(last, InsufficientAvailableFunds) /\ last.tx.kind = "Dispute"
  /\ last.tx.info.id \in DOMAIN deposits
  /\ ~deposits[last.tx.info.id].under_dispute
  /\ deposits[last.tx.info.id].amount > accounts[last.tx.info.client_id].available
  /\ accounts[last.tx.info.client_id].held = 0

\* C22: a Resolve or ChargeBack referencing the client's own stored deposit
\* that is not under dispute, with held >= the deposit amount, changes nothing
\* in the store (balances, locked and the deposit's flag are as before) and
\* returns success when upsert_account does not fail.
C22_NotDisputedIgnored ==
  [][(/\ \/ OwnDepositCall("Resolve")
         \/ OwnDepositCall("ChargeBack")
      /\ ~RefDeposit.under_dispute
      /\ LoadedAccount.held >= RefDeposit.amount) =>
       (/\ ~last'.upsert_failed => last'.res = Ok(LoadedAccount)
        /\ deposits' = deposits
        /\ accounts' = Put(accounts, LoadedAccount.client, LoadedAccount))]_vars

\* C23 as stated: a Resolve or ChargeBack referencing the client's own stored
\* deposit whose amount exceeds the account's held funds returns
\* InsufficientHeldFunds whether or not the deposit is under dispute; the flag
\* and the stored account are unchanged.
C23_NeedsHeld ==
  [][(/\ OwnStoredDepositCall({"Resolve", "ChargeBack"})
      /\ LoadedAccount.held < RefDeposit.amount) =>
       (/\ last'.res = Err(InsufficientHeldFunds)
        /\ StoreUnchanged)]_vars

\* C23 amended: such a Resolve or ChargeBack returns InsufficientHeldFunds
\* when the client's account is not locked and LockedAccount when it is; in
\* both cases the flag and the stored account are unchanged.
C23_NeedsHeldAmended ==
  [][(/\ OwnStoredDepositCall({"Resolve", "ChargeBack"})
      /\ LoadedAccount.held < RefDeposit.amount) =>
       (/\ IF LoadedAccount.locked
           THEN ReturnedLocked
           ELSE last'.res = Err(InsufficientHeldFunds)
        /\ StoreUnchanged)]_vars

\* A Resolve of the client's own deposit that is not under dispute was refused
\* for insufficient held funds.
C23_Witness ==
  /\ Returned(last, InsufficientHeldFunds) /\ last.tx.kind = "Resolve"
  /\ last.tx.info.id \in DOMAIN deposits
  /\ ~deposits[last.tx.info.id].under_dispute
  /\ deposits[last.tx.info.id].info.client_id = last.tx.info.client_id

\* C24: a Deposit rejected with LockedAccount leaves no record: after the call
\* the deposits map has no entry for its id, the map is as before the call, and
\* the accounts are unchanged.
C24_LockedDepositLeavesNoRecord ==
  [][(/\ last'.called /\ last'.tx.kind = "Deposit"
      /\ ~last'.res.ok /\ last'.res.err.type = "LockedAccount") =>
       (/\ last'.tx.info.id \notin DOMAIN deposits'
        /\ StoreUnchanged)]_vars

\* A Deposit of a positive amount was rejected with LockedAccount while
\* another deposit of the client is stored.
C24_Witness ==
  /\ last.called /\ last.tx.kind = "Deposit" /\ last.tx.amount > 0
  /\ Returned(last, LockedAccount(last.tx.info.client_id, last.tx.info.id))
  /\ last.tx.info.id \notin DOMAIN deposits
  /\ \E id \in DOMAIN deposits :
       deposits[id].info.client_id = last.tx.info.client_id

\* ------------------------------------------- a failing compensation step
\* The error a store operation returns when it cannot take its lock.
PoisonError == [type |-> "AccessError", msg |-> "poisoned lock"]

\* delete_transaction and toggle_under_dispute when the write lock of the
\* deposits map cannot be taken: the error is returned and the map is as it was.
delete_transaction_poisoned(deps, id) == [res |-> Err(PoisonError), deposits |-> deps]

toggle_under_dispute_poisoned(deps, id) == [res |-> Err(PoisonError), deposits |-> deps]

\* The compensation when its store call fails.
rollback_poisoned(deps, tx, e) ==
  IF tx.kind \in {"Deposit", "Withdrawal"}
  THEN LET del == delete_transaction_poisoned(deps, tx.info.id) IN
       [res |-> IF del.res.ok THEN Err(e) ELSE Err(StoreErr(del.res.err)),
        deposits |-> del.deposits, compensated |-> TRUE]
  ELSE IF e.type = "TransactionNotCommited"
  THEN LET tog == toggle_under_dispute_poisoned(deps, tx.info.id) IN
       [res |-> IF tog.res.ok THEN Err(e) ELSE Err(StoreErr(tog.res.err)),
        deposits |-> tog.deposits, compensated |-> TRUE]
  ELSE [res |-> Err(e), deposits |-> deps, compensated |-> FALSE]

\* What process_transaction does with the result r of its inner block when
\* the compensation's store call fails: out is the outcome of the call,
\* original the error of the inner block, compensated whether a compensation
\* step ran.
rollback_poisoned_outcome(r, tx) ==
  IF r.res.ok
  THEN [compensated |-> FALSE]
  ELSE LET back == rollback_poisoned(r.deposits, tx, r.res.err)
       IN [out |-> Outcome(back.res, back.deposits, r.accounts, r.upsert_failed),
           original |-> r.res.err,
           compensated |-> back.compensated]

\* process_transaction when the compensation's store call fails.
process_transaction_poisoned(deps, accs, failure, transaction) ==
  IF \/ has_negative_amount(transaction)
     \/ ~create_transaction(deps, transaction).res.ok
  THEN [compensated |-> FALSE]
  ELSE rollback_poisoned_outcome(
         transaction_result(create_transaction(deps, transaction).deposits, accs,
                            failure, transaction),
         transaction)

\* The call of tx returns after its compensation step failed. The call
\* returns an error, so net and chargebacks are as before; last also records
\* the error of the inner block.
CompletesPoisoned(tx, p) ==
  /\ p.compensated
  /\ deposits' = p.out.deposits
  /\ accounts' = p.out.accounts
  /\ last' = [called |-> TRUE, tx |-> tx, res |-> p.out.res,
              upsert_failed |-> p.out.upsert_failed,
              original |-> p.original]
  /\ UNCHANGED <<net, chargebacks, engines, seeded, driver>>

\* One call that reaches a compensation step whose store call fails.
ProcessTransactionPoisoned(tx, failure) ==
  /\ ~last.called
  /\ IsDeposit(tx) => net + tx.amount <= MaxNet
  /\ CompletesPoisoned(tx, process_transaction_poisoned(deposits, accounts, failure, tx))

\* A poisoned lock stays poisoned: the run is followed up to the first call
\* whose compensation step fails.
NextTransactionUnpoisoned ==
  /\ "original" \notin DOMAIN last
  /\ NextTransaction

NextPoisoned ==
  \/ \E tx \in Transaction, failure \in BOOLEAN :
       \/ ProcessTransaction(tx, failure)
       \/ ProcessTransactionPoisoned(tx, failure)
  \/ NextTransactionUnpoisoned

SpecPoisoned == Init /\ [][NextPoisoned]_vars

\* The error err is the error e or carries e as its inner error.
Wraps(err, e) ==
  \/ err = e
  \/ err.type \in {"Store", "TransactionNotCommited"} /\ err.inner = e

\* The last call's compensation step failed.
CompensationFailed == last.called /\ "original" \in DOMAIN last

\* C25: when a compensation step itself fails (delete_transaction after a
\* failed Deposit or Withdrawal, toggle_under_dispute after a non-committed
\* Dispute, Resolve or ChargeBack), the error process_transaction returns wraps
\* the error of the inner block that triggered the compensation.
C25_CompensationErrorWrapsOriginal ==
  CompensationFailed => Wraps(last.res.err, last.original)

\* ---------------------------------------- two engines sharing one MemoryStore
\* Each engine runs one process_transaction; the calls interleave between
\* their store calls, each store call being atomic under the map's lock.
Engines == {1, 2}

\* The transactions of the client the two calls are for.
SharedTransactions == {t \in Transaction : t.info.client_id = 1}

\* The store after one more call that ran alone on the store st.
StoreOf(out) == Store(out.deposits, out.accounts)

After(st, tx, failure) ==
  StoreOf(process_transaction(st.deposits, st.accounts, failure, tx))

\* The stores the two engines start from: empty, after one deposit of the
\* client, and after that deposit was disputed.
Seeds ==
  LET d == TxDeposit(MaxTxId, 1, MaxAmount)
      s0 == Store(Empty, Empty)
      s1 == After(s0, d, FALSE)
  IN {s0, s1, After(s1, TxDispute(MaxTxId, 1), FALSE)}

\* An engine that has not been handed its transaction.
Idle == [pc |-> "idle"]

\* An engine inside process_transaction: pc names the store call it is about to
\* make, account is its local copy of the account, flag the value it is about
\* to give to set_transaction_under_dispute, res the result of the inner block
\* so far (at "done", of the call).
Task(pc, tx, failure, account, flag, res) ==
  [pc |-> pc, tx |-> tx, failure |-> failure, account |-> account,
   flag |-> flag, res |-> res]

InFlight ==
  {"create_transaction", "get_account", "get_transaction",
   "set_transaction_under_dispute", "upsert_account", "rollback"}

InitShared ==
  /\ seeded \in Seeds
  /\ deposits = seeded.deposits
  /\ accounts = seeded.accounts
  /\ engines = [p \in Engines |-> Idle]
  /\ last = NoCall
  /\ net = 0
  /\ chargebacks = FALSE
  /\ driver = NoDriver

\* The call starts: the negative-amount guard, before any store call.
Start(p, tx, failure) ==
  LET fresh == NewAccount(tx.info.client_id) IN
  /\ engines[p].pc = "idle"
  /\ engines' = [engines EXCEPT ![p] =
       IF has_negative_amount(tx)
       THEN Task("done", tx, failure, fresh, FALSE,
                 Err(NegativeAmountTransaction(tx.info.id)))
       ELSE Task("create_transaction", tx, failure, fresh, FALSE, Ok(fresh))]
  /\ UNCHANGED <<deposits, accounts, last, net, chargebacks, seeded, driver>>

\* store.create_transaction; its error ends the call without a rollback.
CreateTransaction(p) ==
  LET t == engines[p]
      created == create_transaction(deposits, t.tx)
  IN /\ t.pc = "create_transaction"
     /\ deposits' = created.deposits
     /\ engines' = [engines EXCEPT ![p] =
          IF created.res.ok
          THEN [t EXCEPT !.pc = "get_account"]
          ELSE [t EXCEPT !.pc = "done", !.res = Err(StoreErr(created.res.err))]]
     /\ UNCHANGED <<accounts, last, net, chargebacks, seeded, driver>>

\* store.get_account, then the locked guard and, for a Deposit or Withdrawal,
\* the handler, which makes no store call.
GetAccount(p) ==
  LET t == engines[p]
      account == get_account(accounts, t.tx.info.client_id).val
      applied == apply_transaction(deposits, account, t.tx)
  IN /\ t.pc = "get_account"
     /\ engines' = [engines EXCEPT ![p] =
          IF is_locked(account)
          THEN [t EXCEPT !.pc = "rollback", !.account = account,
                         !.res = Err(LockedAccount(t.tx.info.client_id, t.tx.info.id))]
          ELSE IF t.tx.kind \notin {"Deposit", "Withdrawal"}
          THEN [t EXCEPT !.pc = "get_transaction", !.account = account]
          ELSE IF applied.res.ok
          THEN [t EXCEPT !.pc = "upsert_account", !.account = applied.account]
          ELSE [t EXCEPT !.pc = "rollback", !.account = account, !.res = applied.res]]
     /\ UNCHANGED <<deposits, accounts, last, net, chargebacks, seeded, driver>>

\* store.get_transaction in dispute, resolve or chargeback, then the handler's
\* checks on what it read; the handler's write is the next step.
GetTransaction(p) ==
  LET t == engines[p]
      applied == apply_transaction(deposits, t.account, t.tx)
  IN /\ t.pc = "get_transaction"
     /\ engines' = [engines EXCEPT ![p] =
          IF ~applied.res.ok
          THEN [t EXCEPT !.pc = "rollback", !.res = applied.res]
          ELSE IF applied.deposits # deposits
          THEN [t EXCEPT !.pc = "set_transaction_under_dispute",
                         !.account = applied.account,
                         !.flag = applied.deposits[t.tx.info.id].under_dispute]
          ELSE [t EXCEPT !.pc = "upsert_account", !.account = applied.account]]
     /\ UNCHANGED <<deposits, accounts, last, net, chargebacks, seeded, driver>>

\* store.set_transaction_under_dispute.
SetTransactionUnderDispute(p) ==
  LET t == engines[p]
      set == set_transaction_under_dispute(deposits, t.tx.info.id, t.flag)
  IN /\ t.pc = "set_transaction_under_dispute"
     /\ deposits' = set.deposits
     /\ engines' = [engines EXCEPT ![p] =
          IF set.res.ok
          THEN [t EXCEPT !.pc = "upsert_account"]
          ELSE [t EXCEPT !.pc = "rollback", !.res = Err(StoreErr(set.res.err))]]
     /\ UNCHANGED <<accounts, last, net, chargebacks, seeded, driver>>

\* store.upsert_account.
UpsertAccount(p) ==
  LET t == engines[p]
      up == upsert_account(accounts, t.failure, t.account)
  IN /\ t.pc = "upsert_account"
     /\ accounts' = up.accounts
     /\ engines' = [engines EXCEPT ![p] =
          IF up.res.ok
          THEN [t EXCEPT !.pc = "done", !.res = Ok(t.account)]
          ELSE [t EXCEPT !.pc = "rollback",
                         !.res = Err(TransactionNotCommited(up.res.err))]]
     /\ UNCHANGED <<deposits, last, net, chargebacks, seeded, driver>>

\* The compensation after the inner block returned an error.
Rollback(p) ==
  LET t == engines[p]
      back == rollback(deposits, t.tx, t.res.err)
  IN /\ t.pc = "rollback"
     /\ deposits' = back.deposits
     /\ engines' = [engines EXCEPT ![p] = [t EXCEPT !.pc = "done", !.res = back.res]]
     /\ UNCHANGED <<accounts, last, net, chargebacks, seeded, driver>>

\* The future of the call is dropped at one of its await points.
Cancel(p) ==
  /\ engines[p].pc \in InFlight
  /\ engines' = [engines EXCEPT ![p].pc = "cancelled"]
  /\ UNCHANGED <<deposits, accounts, last, net, chargebacks, seeded, driver>>

NextShared ==
  \E p \in Engines :
    \/ \E tx \in SharedTransactions, failure \in BOOLEAN : Start(p, tx, failure)
    \/ CreateTransaction(p)
    \/ GetAccount(p)
    \/ GetTransaction(p)
    \/ SetTransactionUnderDispute(p)
    \/ UpsertAccount(p)
    \/ Rollback(p)
    \/ Cancel(p)

SpecShared == InitShared /\ [][NextShared]_vars

\* Both calls have returned.
BothDone == \A p \in Engines : engines[p].pc = "done"

\* The store after the call of engine a and then the call of engine b each ran
\* alone, starting from the seeded store.
Serial(a, b) ==
  After(After(seeded, engines[a].tx, engines[a].failure),
        engines[b].tx, engines[b].failure)

\* C26: when two engines share one MemoryStore and each runs one
\* process_transaction for the same client, interleaved between store calls,
\* the final accounts and deposits are those of running the two transactions
\* in one of the two serial orders.
C26_SerialOutcome ==
  BothDone => Store(deposits, accounts) \in {Serial(1, 2), Serial(2, 1)}

\* C27: a Deposit that fails after it stored its entry is rolled back by
\* deleting the entry even when a concurrent Dispute of the same client has
\* read the entry and succeeded: once both calls have returned, the id the
\* successful Dispute references is not in the deposits map.
C27_RollbackDeletesDisputedDeposit ==
  \A p, q \in Engines :
    (/\ BothDone
     /\ engines[p].tx.kind = "Dispute" /\ engines[p].res.ok
     /\ engines[q].tx.kind = "Deposit" /\ ~engines[q].res.ok
     /\ engines[q].tx.info.id = engines[p].tx.info.id
     /\ engines[q].res.err.type \in {"TransactionNotCommited", "LockedAccount"})
      => engines[p].tx.info.id \notin DOMAIN deposits

\* A Dispute has succeeded and moved the amount of the deposit it read to
\* held, and the concurrent failing Deposit's rollback has deleted that
\* deposit: its id is no longer in the deposits map.
C27_Witness ==
  \E p, q \in Engines :
    /\ BothDone
    /\ engines[p].tx.kind = "Dispute" /\ engines[p].res.ok
    /\ engines[q].tx.kind = "Deposit" /\ ~engines[q].res.ok
    /\ engines[q].tx.info.id = engines[p].tx.info.id
    /\ engines[q].tx.amount > 0
    /\ accounts[1] = engines[p].res.val
    /\ accounts[1].held = get_account(seeded.accounts, 1).val.held + engines[q].tx.amount
    /\ engines[p].tx.info.id \notin DOMAIN deposits

\* C28: if the call is cancelled at one of its store calls, the store is
\* either as it was before the call or as the completed call leaves it.
C28_CancelLeavesNoPartialState ==
  (engines # NoEngines /\ engines[1].pc = "cancelled" /\ engines[2].pc = "idle") =>
    Store(deposits, accounts) \in
      {seeded, After(seeded, engines[1].tx, engines[1].failure)}

\* =========================================================================
\* The driver: process_transactions reads the rows of the input one by one,
\* passes each transaction to process_transaction on an engine over an empty
\* MemoryStore without the failure hook, logs the errors, and asks for the
\* report when the stream has ended.
MaxRows == 3

\* A row of the input as read_csv_async yields it: a transaction, or the
\* error of a record that did not deserialize.
CsvError == [type |-> "Deserialize"]
Rows == {Ok(tx) : tx \in Transaction} \cup {Err(CsvError)}

\* The input of the test it_works.
S1 ==
  << Ok(TxDeposit(1, 1, 100 * One)), Ok(TxWithdrawal(2, 1, 50 * One)),
     Ok(TxDeposit(3, 2, 100 * One)), Ok(TxDeposit(4, 1, 200 * One)),
     Ok(TxDispute(4, 1)), Ok(TxResolve(4, 1)),
     Ok(TxDispute(3, 2)), Ok(TxChargeBack(3, 2)),
     Ok(TxDispute(3, 1)) >>

Inputs == {S1} \cup UNION {[1..n -> Rows] : n \in 0..MaxRows}

InitDriver ==
  /\ deposits = Empty /\ accounts = Empty
  /\ last = NoCall /\ net = 0 /\ chargebacks = FALSE
  /\ engines = NoEngines /\ seeded = Store(Empty, Empty)
  /\ \E input \in Inputs : driver = [NoDriver EXCEPT !.input = input]

Reading == ~driver.reported /\ driver.pos < Len(driver.input)

\* The loop has taken the row and the call on it has returned out.
Processed(tx, out) ==
  /\ deposits' = out.deposits
  /\ accounts' = out.accounts
  /\ driver' = [driver EXCEPT !.pos = @ + 1, !.calls = Append(@, tx)]
  /\ UNCHANGED <<last, net, chargebacks, engines, seeded>>

\* The Ok arm of the loop: the call is awaited before the next row is read,
\* and its error, if any, is only logged.
ReadTransaction ==
  /\ Reading
  /\ driver.input[driver.pos + 1].ok
  /\ Processed(driver.input[driver.pos + 1].val,
               process_transaction(deposits, accounts, FALSE,
                                   driver.input[driver.pos + 1].val))

ReadDeserializationError_stops ==
  /\ Reading
  /\ ~driver.input[driver.pos + 1].ok
  /\ driver' = [driver EXCEPT !.pos = Len(driver.input)]
  /\ UNCHANGED <<deposits, accounts, last, net, chargebacks, engines, seeded>>

\* The Err arm of the loop: the error is logged and the loop goes on.
ReadDeserializationError ==
  /\ Reading
  /\ ~driver.input[driver.pos + 1].ok
  /\ driver' = [driver EXCEPT !.pos = @ + 1]
  /\ UNCHANGED <<deposits, accounts, last, net, chargebacks, engines, seeded>>

\* The stream has ended: the report is taken from the engine and written.
Report ==
  /\ ~driver.reported
  /\ driver.pos = Len(driver.input)
  /\ driver' = [driver EXCEPT !.reported = TRUE, !.report = report(accounts)]
  /\ UNCHANGED <<deposits, accounts, last, net, chargebacks, engines, seeded>>

NextDriver ==
  \/ ReadTransaction
  \/ ReadDeserializationError
  \/ Report

SpecDriver == InitDriver /\ [][NextDriver]_vars

\* The transactions among the first n rows of the input, in input order.
RECURSIVE Passed(_, _)
Passed(input, n) ==
  IF n = 0 THEN <<>>
  ELSE IF input[n].ok THEN Append(Passed(input, n - 1), input[n].val)
       ELSE Passed(input, n - 1)

\* The store after the calls ran one after the other from the store st.
RECURSIVE Sequentially(_, _)
Sequentially(st, calls) ==
  IF calls = <<>> THEN st
  ELSE After(Sequentially(st, SubSeq(calls, 1, Len(calls) - 1)),
             calls[Len(calls)], FALSE)

\* C29: the driver passes the transactions to process_transaction one at a
\* time and in input order: the calls made so far are exactly the
\* transactions among the rows read so far, whatever the earlier calls
\* returned and whatever rows failed to deserialize, the store is the one these calls leave
\* when each completes before the next starts, and the report is requested
\* only once every row has been read.
C29_DriverInOrder ==
  /\ driver.calls = Passed(driver.input, driver.pos)
  /\ Store(deposits, accounts) = Sequentially(Store(Empty, Empty), driver.calls)
  /\ driver.reported =>
       /\ driver.pos = Len(driver.input)
       /\ driver.report = report(accounts)

\* The report was requested after a row that did not deserialize and a call
\* that returned an error were each followed by a call.
C29_Witness ==
  /\ driver.reported
  /\ Len(driver.input) = MaxRows
  /\ ~driver.input[1].ok
  /\ driver.input[2].ok
  /\ ~process_transaction(Empty, Empty, FALSE, driver.input[2].val).res.ok
  /\ driver.input[MaxRows].ok
  /\ Len(driver.calls) = MaxRows - 1
  /\ accounts # Empty

\* C30: scenario S1 from an empty store reports exactly two accounts: client
\* 1 with available 250, held 0, total 250, unlocked, and client 2 with
\* available 0, held 0, total 0, locked.
C30_ScenarioS1 ==
  (driver.input = S1 /\ driver.reported) =>
    driver.report =
      { [client |-> 1, available |-> 250 * One, held |-> 0, total |-> 250 * One,
         locked |-> FALSE],
        [client |-> 2, available |-> 0, held |-> 0, total |-> 0, locked |-> TRUE] }

\* The report of scenario S1 was requested.
C30_Witness ==
  /\ driver.input = S1
  /\ driver.reported
  /\ Len(driver.calls) = Len(S1)

\* =========================================================================
\* A Dispute and the Resolve that follows it, on a store seeded with what a
\* run of the engine from the empty store has left.
SeedCalls == 4

\* The stores left by at most n calls from the empty store.
RECURSIVE ReachedIn(_)
ReachedIn(n) ==
  IF n = 0 THEN {Store(Empty, Empty)}
  ELSE ReachedIn(n - 1) \cup
       {After(st, tx, failure) :
          st \in ReachedIn(n - 1), tx \in Transaction, failure \in BOOLEAN}

\* The Dispute and the Resolve of deposit id by the client.
RoundTrip(id, client) == << Ok(TxDispute(id, client)), Ok(TxResolve(id, client)) >>

InitRoundTrip ==
  /\ seeded \in ReachedIn(SeedCalls)
  /\ deposits = seeded.deposits
  /\ accounts = seeded.accounts
  /\ \E id \in TransactionId, client \in ClientId :
       driver = [NoDriver EXCEPT !.input = RoundTrip(id, client)]
  /\ last = NoCall /\ net = 0 /\ chargebacks = FALSE /\ engines = NoEngines

\* The call on the row has returned out.
Called(tx, out) ==
  /\ deposits' = out.deposits
  /\ accounts' = out.accounts
  /\ last' = Call(tx, out)
  /\ driver' = [driver EXCEPT !.pos = @ + 1, !.calls = Append(@, tx)]
  /\ UNCHANGED <<net, chargebacks, engines, seeded>>

\* The Dispute is processed.
DisputeCall(failure) ==
  /\ driver.pos = 0
  /\ Called(driver.input[1].val,
            process_transaction(deposits, accounts, failure, driver.input[1].val))

\* The Dispute has returned Ok and the Resolve is processed next.
ResolveCall(failure) ==
  /\ driver.pos = 1
  /\ last.res.ok
  /\ Called(driver.input[2].val,
            process_transaction(deposits, accounts, failure, driver.input[2].val))

NextRoundTrip ==
  \E failure \in BOOLEAN :
    \/ DisputeCall(failure)
    \/ ResolveCall(failure)

SpecRoundTrip == InitRoundTrip /\ [][NextRoundTrip]_vars

\* The Dispute and the Resolve have both returned Ok.
RoundTripDone == driver.pos = Len(driver.input) /\ last.called /\ last.res.ok

\* The deposit the round trip references was, before the Dispute, stored, not
\* under dispute and owned by the caller, whose account was stored, unlocked
\* and had the deposit's amount available.
RoundTripApplies ==
  LET id == driver.input[1].val.info.id
      client == driver.input[1].val.info.client_id
  IN /\ id \in DOMAIN seeded.deposits
     /\ ~seeded.deposits[id].under_dispute
     /\ seeded.deposits[id].info.client_id = client
     /\ client \in DOMAIN seeded.accounts
     /\ ~seeded.accounts[client].locked
     /\ seeded.accounts[client].available >= seeded.deposits[id].amount

StoreAccounts ==
  {AccountSeeded(client, available, held, locked) :
     client \in ClientId, available \in 0..MaxAmount, held \in 0..MaxAmount,
     locked \in BOOLEAN}

StoreCall(op, arg, res) == [called |-> TRUE, op |-> op, arg |-> arg, res |-> res]

\* An operation on the deposits map has returned out.
DepositsCalled(op, arg, out) ==
  /\ ~last.called
  /\ deposits' = out.deposits
  /\ last' = StoreCall(op, arg, out.res)
  /\ UNCHANGED <<accounts, net, chargebacks, engines, seeded, driver>>

\* An operation that takes a read lock has returned res.
ReadCalled(op, arg, res) ==
  /\ ~last.called
  /\ last' = StoreCall(op, arg, res)
  /\ UNCHANGED <<deposits, accounts, net, chargebacks, engines, seeded, driver>>

\* An operation on the accounts map has returned out.
AccountsCalled(op, arg, out) ==
  /\ ~last.called
  /\ accounts' = out.accounts
  /\ last' = StoreCall(op, arg, out.res)
  /\ UNCHANGED <<deposits, net, chargebacks, engines, seeded, driver>>

StoreCreateTransaction(tx) ==
  DepositsCalled("create_transaction", tx, create_transaction(deposits, tx))

StoreDeleteTransaction(id) ==
  DepositsCalled("delete_transaction", id, delete_transaction(deposits, id))

StoreGetTransaction(id) ==
  ReadCalled("get_transaction", id, get_transaction(deposits, id))

StoreGetAccount(client) ==
  ReadCalled("get_account", client, get_account(accounts, client))

StoreUpsertAccount(account, failure) ==
  AccountsCalled("upsert_account", account, upsert_account(accounts, failure, account))

\* Mutant: the accounts of the map are rescaled in place.
write_csv_async_in_place(accs) ==
  [res |-> Ok({to_max_display_precision(a) : a \in get_all_accounts(accs)}),
   accounts |-> [c \in DOMAIN accs |-> to_max_display_precision(accs[c])]]

\* The rows written from the accounts of the store: get_all_accounts yields
\* clones, and the writer rescales each clone it has taken from the stream.
write_csv_async(accs) ==
  [res |-> Ok({to_max_display_precision(a) : a \in get_all_accounts(accs)}),
   accounts |-> accs]

StoreReport ==
  AccountsCalled("report", Unit, write_csv_async(accounts))

NextStore ==
  \/ \E tx \in Transaction : StoreCreateTransaction(tx)
  \/ \E id \in TransactionId : StoreDeleteTransaction(id)
  \/ \E id \in TransactionId : StoreGetTransaction(id)
  \/ \E client \in ClientId : StoreGetAccount(client)
  \/ \E account \in StoreAccounts, failure \in BOOLEAN :
       StoreUpsertAccount(account, failure)
  \/ StoreReport
  \/ NextTransaction

SpecStore == Init /\ [][NextStore]_vars

Did(l, op) == l.called /\ l.op = op

\* C32: create_transaction of a Withdrawal, Dispute, Resolve or ChargeBack
\* returns that transaction unchanged as success and leaves the deposits map
\* unchanged, also when a deposit with its id is stored.
C32_NonDepositNotStored ==
  [][(Did(last', "create_transaction") /\ ~IsDeposit(last'.arg)) =>
       (/\ last'.res = Ok(last'.arg)
        /\ deposits' = deposits)]_vars

\* create_transaction of a transaction that is not a deposit has returned, and
\* a deposit with its id is stored.
C32_Witness ==
  /\ Did(last, "create_transaction")
  /\ ~IsDeposit(last.arg)
  /\ last.arg.info.id \in DOMAIN deposits

\* C33: delete_transaction(id) succeeds whether or not id is stored and removes
\* only the entry with that id; it is idempotent: a second delete_transaction(id)
\* leaves the map the first one left, and get_transaction(id) then returns
\* NotFound{id}.
C33_DeleteIdempotent ==
  [][Did(last', "delete_transaction") =>
       (/\ last'.res = Ok(Unit)
        /\ DOMAIN deposits' = DOMAIN deposits \ {last'.arg}
        /\ \A id \in DOMAIN deposits' : deposits'[id] = deposits[id]
        /\ delete_transaction(deposits', last'.arg) =
             [res |-> Ok(Unit), deposits |-> deposits']
        /\ get_transaction(deposits', last'.arg) = Err(NotFound(last'.arg)))]_vars

\* delete_transaction of an id that is not stored has returned Ok while another
\* deposit is stored.
C33_Witness ==
  /\ Did(last, "delete_transaction")
  /\ last.res.ok
  /\ last.arg \notin DOMAIN deposits
  /\ deposits # Empty

\* C34: get_account of a client with no stored account returns a zeroed,
\* unlocked account of that client and leaves the accounts map unchanged; the
\* keys of the map change only by a successful upsert_account, after which
\* get_account of that client returns exactly the upserted account.
C34_GetAccountDoesNotPersist ==
  [][/\ (Did(last', "get_account") /\ last'.arg \notin DOMAIN accounts) =>
          (/\ last'.res = Ok([client |-> last'.arg, available |-> 0, held |-> 0,
                              total |-> 0, locked |-> FALSE])
           /\ accounts' = accounts)
     /\ (DOMAIN accounts' # DOMAIN accounts) =>
          (Did(last', "upsert_account") /\ last'.res.ok)
     /\ (Did(last', "upsert_account") /\ last'.res.ok) =>
          (/\ get_account(accounts', last'.arg.client) = Ok(last'.arg)
           /\ \A c \in DOMAIN accounts' \ {last'.arg.client} :
                c \in DOMAIN accounts /\ accounts'[c] = accounts[c])]_vars

\* get_account of a client with no stored account has returned while the
\* account of another client, with funds, is stored.
C34_Witness ==
  /\ Did(last, "get_account")
  /\ last.arg \notin DOMAIN accounts
  /\ \E c \in DOMAIN accounts : accounts[c].total > 0

\* C35: writing the report leaves every account of the store as it was: the
\* rows are the accounts rescaled to the display precision, and the rescaling
\* is applied to copies.
C35_ReportLeavesStore ==
  [][Did(last', "report") =>
       (/\ accounts' = accounts
        /\ deposits' = deposits
        /\ last'.res = Ok({to_max_display_precision(accounts[c]) : c \in DOMAIN accounts}))]_vars

\* A report was written in which the row of a client differs from the stored
\* account: its amounts had more decimal places than the report shows.
C35_Witness ==
  /\ Did(last, "report")
  /\ \E c \in DOMAIN accounts : accounts[c] \notin last.res.val

\* =========================================================================
\* The amount of the client's stored deposits that are under dispute.
RECURSIVE SumAmounts(_, _)
SumAmounts(deps, ids) ==
  IF ids = {} THEN 0
  ELSE LET id == CHOOSE i \in ids : TRUE
       IN deps[id].amount + SumAmounts(deps, ids \ {id})

DisputedOf(deps, client) ==
  {id \in DOMAIN deps : deps[id].info.client_id = client /\ deps[id].under_dispute}

\* C36: after every call, failed ones and ones whose upsert_account failed
\* included, the held amount of each stored account is the sum of the amounts
\* of the client's stored deposits that are under dispute, and a client without
\* a stored account has no deposit under dispute.
C36_HeldIsDisputedDeposits ==
  \A client \in ClientId :
    IF client \in DOMAIN accounts
    THEN accounts[client].held = SumAmounts(deposits, DisputedOf(deposits, client))
    ELSE DisputedOf(deposits, client) = {}

\* C37: from the empty store, after any sequence of calls, every stored
\* account has available >= 0, held >= 0 and total >= 0.
C37_AmountsNotNegative ==
  \A client \in DOMAIN accounts :
    /\ accounts[client].available >= 0
    /\ accounts[client].held >= 0
    /\ accounts[client].total >= 0

\* A Withdrawal of more than the client has available was rejected, and in an
\* earlier call a ChargeBack took an amount from a total.
C37_Witness ==
  /\ Returned(last, InsufficientAvailableFunds)
  /\ last.tx.kind = "Withdrawal"
  /\ chargebacks
  /\ \E client \in DOMAIN accounts : accounts[client].locked

\* C38: process_transaction of a Withdrawal never changes the deposits map,
\* whether it succeeds or fails and whatever its id is.
C38_WithdrawalKeepsDeposits ==
  [][(last'.called /\ last'.tx.kind = "Withdrawal") => deposits' = deposits]_vars

\* C39: from the empty store, process_transaction never returns
\* WrongTransactionRef: every transaction a Dispute, Resolve or ChargeBack
\* finds in the store is a Deposit.
C39_NeverWrongTransactionRef ==
  /\ last.called => (last.res.ok \/ last.res.err.type # "WrongTransactionRef")
  /\ \A id \in DOMAIN deposits : IsDeposit(deposits[id])

\* A Dispute, Resolve or ChargeBack whose id is that of a stored transaction
\* has returned an error, which is not WrongTransactionRef.
C39_Witness ==
  /\ last.called
  /\ last.tx.kind \in {"Dispute", "Resolve", "ChargeBack"}
  /\ last.tx.info.id \in DOMAIN deposits
  /\ ~last.res.ok

\* =========================================================================
\* Runs of the driver long enough for a ChargeBack to follow a ChargeBack:
\* inputs of at most MaxCalls rows, each a Deposit of MaxAmount, a Dispute, a
\* Resolve or a ChargeBack.
MaxCalls == 4

ChargebackRows ==
  {Ok(tx) : tx \in {t \in Transaction :
                      /\ t.kind # "Withdrawal"
                      /\ IsDeposit(t) => t.amount = MaxAmount}}

InitChargeback ==
  /\ deposits = Empty /\ accounts = Empty
  /\ last = NoCall /\ net = 0 /\ chargebacks = FALSE
  /\ engines = NoEngines /\ seeded = Store(Empty, Empty)
  /\ \E input \in UNION {[1..n -> ChargebackRows] : n \in 0..MaxCalls} :
       driver = [NoDriver EXCEPT !.input = input]

NextChargeback ==
  \/ ReadTransaction
  \/ Report

SpecChargeback == InitChargeback /\ [][NextChargeback]_vars

\* The store before and after the k-th call of the run, and what it returned.
StoreBefore(k) == Sequentially(Store(Empty, Empty), SubSeq(driver.calls, 1, k - 1))

StoreAfter(k) == Sequentially(Store(Empty, Empty), SubSeq(driver.calls, 1, k))

ResultOf(k) ==
  process_transaction(StoreBefore(k).deposits, StoreBefore(k).accounts, FALSE,
                      driver.calls[k]).res

ChargebackOk(k) == driver.calls[k].kind = "ChargeBack" /\ ResultOf(k).ok

\* The k-th call is a ChargeBack that took the deposit's amount and locked the
\* account.
ChargebackApplied(k) ==
  /\ ChargebackOk(k)
  /\ StoreAfter(k).accounts[driver.calls[k].info.client_id].locked

Calls == 1..Len(driver.calls)

CallsOf(client) == {k \in Calls : driver.calls[k].info.client_id = client}

====
